---- MODULE Spec2Model ----
(***************************************************************************)
(* Transactional outbox: the order service (createOrderHandler), the       *)
(* change stream derived from the outbox table, the HTTP-sink relay        *)
(* (debeziumHandler / callWebhook), the Kafka-consumer relay (main loop)   *)
(* and the webhook consumer (finishOrderHandler).                          *)
(***************************************************************************)
EXTENDS Integers, Sequences, FiniteSets, TLC

\* ------------------------------------------------------------------ bounds
\* createOrderHandler requests (order service with the Kafka relay)
MaxOrders == 2
\* createOrderHandler requests when both relays and the sink run as well
MaxSystemOrders == 1
\* POST /debezium requests, and how many of them may be re-deliveries
MaxPosts == 3
MaxDups == 1
\* infrastructure failures (database errors, transport errors) in one run
MaxFaults == 1
\* last value of the database clock
MaxNow == 1
\* concurrent debeziumHandler invocations
NumHandlers == 2
MaxCrashes == 1
NumCalls == 3
MaxMsgs == 2

\* ------------------------------------------------------------- vocabulary
\* published_at TIMESTAMP (nullable): the null value
NullTime == -1

\* no change record / no row held
NoRec == [op |-> "none"]

Reqs == 1..MaxOrders

\* the requests made when the whole system (both relays, the sink) is explored
SystemReqs == 1..MaxSystemOrders

Handlers == 1..NumHandlers

VARIABLES
    deployment,   \* "http": Debezium HTTP sink -> debeziumHandler; "kafka": Kafka relay loop
    now,          \* database clock (NOW(), CURRENT_TIMESTAMP)
    faults,       \* infrastructure failures still to come (transient failures)
    orders,       \* committed orders table: id -> [status]
    outbox,       \* committed outbox table: id -> row
    nextOrderId,  \* orders.id BIGSERIAL
    nextOutboxId, \* outbox.id BIGSERIAL
    req,          \* createOrderHandler invocations
    stream,       \* change records captured from the outbox table, in commit order
    next,         \* first record of the stream not yet posted to the relay
    nposts,       \* number of POST /debezium requests made so far
    ndups,        \* number of those that were re-deliveries
    hs,           \* debeziumHandler invocations (one per gin goroutine)
    started,      \* outbox ids for which a delivery call was started
    delivered,    \* outbox ids for which a delivery call returned 2xx
    krelay,       \* the Kafka relay's loop
    boot,         \* each service's process: "init", "serving", "degraded", "exited"
    callCount,    \* requests counted by the test's mock sink (callCount++)
    polled,       \* outbox ids returned by the last poll of the pending rows
    environ,      \* the environment of the processes: variable -> value, where set
    received,     \* the requests the test server's handler was invoked with, in order
    notif,        \* the notification consumer: its topic, positions and handler
    conf          \* the port each service got from getEnv("PORT", ...), once read

vars == <<deployment, now, faults, orders, outbox, nextOrderId, nextOutboxId, req,
          stream, next, nposts, ndups, hs, started, delivered, krelay, boot,
          callCount, polled, environ, received, notif, conf>>

envVars == <<boot, callCount, polled, environ, received, notif, conf>>

dbVars == <<orders, outbox, nextOrderId, nextOutboxId>>
relayVars == <<next, nposts, ndups, hs, started, delivered, krelay>>

\* the processes; the relay is the HTTP relay or the Kafka relay
Services == {"order-service", "relay", "webhook-consumer"}

\* no variable is set
NoEnv == [k \in {} |-> ""]

\* os.Getenv: the value of the variable, "" when it is not set
Getenv(key) == IF key \in DOMAIN environ THEN environ[key] ELSE ""

\* getEnv: if value := os.Getenv(key); value != "" { return value }; return fallback
GetEnv(key, fallback) == IF Getenv(key) # "" THEN Getenv(key) ELSE fallback

\* the mains that call getEnv("PORT", ...) and the fallback they give
ReadsPort(s) == s = "webhook-consumer" \/ (s = "relay" /\ deployment = "http")

DefaultPort(s) == IF s = "relay" THEN "8081" ELSE "8082"

PortOf(s) == IF ReadsPort(s) THEN GetEnv("PORT", DefaultPort(s)) ELSE "unread"

\* the mains that end the process when db.Init returns an error: the HTTP relay
\* and the webhook consumer call log.Fatalf, the order service and the Kafka
\* relay drop the error
ChecksInitError(s) == s = "webhook-consumer" \/ (s = "relay" /\ deployment = "http")

\* ------------------------------------------------------------ the database
\* NOW() / CURRENT_TIMESTAMP read by a statement: the clock may have advanced
Clock == {t \in {now, now + 1} : t <= MaxNow}

\* json.Marshal(order): the outbox payload of an order
Marshal_beforeInsert(order) ==
    [valid |-> TRUE, hasId |-> TRUE, id |-> 0, status |-> order.status]

Marshal(order) ==
    [valid |-> TRUE, hasId |-> TRUE, id |-> order.id, status |-> order.status]

\* INSERT INTO outbox (aggregate_id, payload, status) VALUES ($1, $2, $3)
StatusOnInsert_published == "published"

StatusOnInsert == "pending"

OutboxRow(id, aggregateId, payload, t) ==
    [id |-> id, aggregate_id |-> aggregateId, payload |-> payload,
     status |-> StatusOnInsert, created_at |-> t, published_at |-> NullTime]

\* the change record Debezium emits for a committed row change
ChangeRecord(op, row) == [op |-> op, after |-> row]

\* ---------------------------------------------------- createOrderHandler
ReqIdle == [pc |-> "idle", tx |-> "none", order |-> [id |-> 0, status |-> "pending"],
            row |-> NoRec, code |-> 0]

\* where a write made through tx becomes visible: on commit only
OrdersWrite_autocommit(r, id) == orders @@ (id :> [status |-> "pending"])

OrdersWrite(r, id) == orders

Fail_created(r, txState) ==
    /\ faults > 0
    /\ faults' = faults - 1
    /\ req' = [req EXCEPT ![r].pc = "done", ![r].code = 201, ![r].tx = txState]

Fail(r, txState) ==
    /\ faults > 0
    /\ faults' = faults - 1
    /\ req' = [req EXCEPT ![r].pc = "done", ![r].code = 500, ![r].tx = txState]

\* tx, err := db.Begin(); requests are interchangeable, so they are numbered in
\* the order in which they arrive
Begin(r) ==
    /\ boot["order-service"] = "serving"
    /\ req[r].pc = "idle"
    /\ \A q \in Reqs : q < r => req[q].pc # "idle"
    /\ \/ /\ req' = [req EXCEPT ![r].pc = "begun", ![r].tx = "open"]
          /\ UNCHANGED faults
       \/ Fail(r, "none")
    /\ UNCHANGED <<envVars, deployment, now, dbVars, stream, relayVars>>

\* INSERT INTO orders ... RETURNING id; on error the handler returns without Rollback
InsertOrder(r) ==
    /\ req[r].pc = "begun"
    /\ \/ /\ req' = [req EXCEPT ![r].pc = "inserted", ![r].order.id = nextOrderId]
          /\ nextOrderId' = nextOrderId + 1
          /\ orders' = OrdersWrite(r, nextOrderId)
          /\ UNCHANGED faults
       \/ /\ Fail(r, "open")
          /\ UNCHANGED <<orders, nextOrderId>>
    /\ UNCHANGED <<envVars, deployment, now, outbox, nextOutboxId, stream, relayVars>>

\* json.Marshal(order), then INSERT INTO outbox; Rollback only if the insert fails
InsertOutbox(r) ==
    /\ req[r].pc = "inserted"
    /\ \/ /\ Fail(r, "open")                     \* json.Marshal error: no Rollback
          /\ UNCHANGED <<now, nextOutboxId>>
       \/ /\ Fail(r, "rolledback")               \* insert error: tx.Rollback()
          /\ UNCHANGED <<now, nextOutboxId>>
       \/ \E t \in Clock :
            /\ now' = t
            /\ req' = [req EXCEPT ![r].pc = "outboxed",
                          ![r].row = OutboxRow(nextOutboxId, req[r].order.id,
                                               Marshal(req[r].order), t)]
            /\ nextOutboxId' = nextOutboxId + 1
            /\ UNCHANGED faults
    /\ UNCHANGED <<envVars, deployment, orders, outbox, nextOrderId, stream, relayVars>>

\* tx.Commit(): both rows become visible together and the change is captured
Commit(r) ==
    /\ req[r].pc = "outboxed"
    /\ \/ /\ req' = [req EXCEPT ![r].pc = "done", ![r].code = 201, ![r].tx = "committed"]
          /\ orders' = orders @@ (req[r].order.id :> [status |-> req[r].order.status])
          /\ outbox' = outbox @@ (req[r].row.id :> req[r].row)
          /\ stream' = Append(stream, ChangeRecord("c", req[r].row))
          /\ UNCHANGED faults
       \/ /\ Fail(r, "failed")
          /\ UNCHANGED <<orders, outbox, stream>>
    /\ UNCHANGED <<envVars, deployment, now, nextOrderId, nextOutboxId, relayVars>>

\* ---------------------------------------------------- finishOrderHandler
\* c.ShouldBindJSON(&req) with binding:"required" on order_id and status
BindOK(orderId, status) == orderId # 0 /\ status # ""

\* UPDATE orders SET status = $1, updated_at = NOW() WHERE id = $2
FinishUpdate_toggle(orderId, status) ==
    IF orderId \in DOMAIN orders
    THEN [orders EXCEPT ![orderId].status =
            IF orders[orderId].status = status THEN "pending" ELSE status]
    ELSE orders

FinishUpdate(orderId, status) ==
    IF orderId \in DOMAIN orders
    THEN [orders EXCEPT ![orderId].status = status]
    ELSE orders

FinishRowsAffected(orderId) == IF orderId \in DOMAIN orders THEN 1 ELSE 0

\* the status code finishOrderHandler answers: bound is the result of
\* ShouldBindJSON, execErr that of dbConn.Exec, raErr and rows that of RowsAffected
FinishAnswer_oneRow(bound, execErr, raErr, rows) ==
    IF ~bound THEN 400
    ELSE IF execErr \/ raErr THEN 500
    ELSE IF rows = 1 THEN 200
    ELSE 404

FinishAnswer(bound, execErr, raErr, rows) ==
    IF ~bound THEN 400
    ELSE IF execErr THEN 500
    ELSE IF raErr THEN 500
    ELSE IF rows = 0 THEN 404
    ELSE 200

\* the status code finishOrderHandler answers when its database call succeeds;
\* the result the driver returns for an UPDATE has no error in RowsAffected
FinishCode(orderId, status) ==
    FinishAnswer(BindOK(orderId, status), FALSE, FALSE, FinishRowsAffected(orderId))

\* ------------------------------------------------- relay: debeziumHandler
\* no request sent / no response body / callWebhook not yet returned
NoMsg == [none |-> TRUE]

\* got: the request body; rec: the change record once decoded; sent: the request
\* posted to the sink; werr: callWebhook's result; body: the 200 'processed' answer;
\* mock: the result a test's sqlmock is told to return to the sink, if any;
\* ob: what extractOutbox returned; seen: the value of callCount the test server's
\* handler read for this request
HandlerIdle == [pc |-> "idle", got |-> NoRec, rec |-> NoRec, orderID |-> 0,
                sent |-> NoMsg, code |-> 0, werr |-> NoMsg, resp |-> "none",
                body |-> NoMsg, affected |-> 0, concur |-> FALSE, mock |-> NoMsg,
                ob |-> NoMsg, seen |-> 0]

\* a request body that json.Unmarshal rejects
BadBody == [op |-> "not json"]

\* change.After == nil
NilAfter == [nil |-> TRUE]

\* the JSON kinds of the four required fields of an after image; an image captured
\* from the outbox table has the kinds of its columns
RowShape == [id |-> "number", aggregate_id |-> "string", payload |-> "string",
             status |-> "string", created_at |-> "number"]

ShapeOf(after) == IF "shape" \in DOMAIN after THEN after.shape ELSE RowShape

\* extractOutbox: the error it returns, "" for none; the fields are checked in
\* the order id, aggregate_id, payload, status
ExtractError_statusFirst(after) ==
    LET s == ShapeOf(after)
    IN  IF s.status # "string" THEN "missing or invalid status"
        ELSE IF s.id # "number" THEN "missing or invalid id"
        ELSE IF s.aggregate_id # "string" THEN "missing or invalid aggregate_id"
        ELSE IF s.payload # "string" THEN "missing or invalid payload"
        ELSE ""

ExtractError(after) ==
    LET s == ShapeOf(after)
    IN  IF s.id # "number" THEN "missing or invalid id"
        ELSE IF s.aggregate_id # "string" THEN "missing or invalid aggregate_id"
        ELSE IF s.payload # "string" THEN "missing or invalid payload"
        ELSE IF s.status # "string" THEN "missing or invalid status"
        ELSE ""

\* the zero value of time.Time, which outbox := Outbox{} starts with
ZeroTime == -2

\* extractOutbox: the Outbox it returns with a nil error. created_at is taken
\* from a number (epoch milliseconds) or from a string that parses as RFC3339
\* ("string"; "badstring" is one that does not); the ids of the model are far
\* below 2^53, where float64 to int64 is exact
ExtractOutbox(after) ==
    IF ExtractError(after) # "" THEN [err |-> ExtractError(after)]
    ELSE [err |-> "", ID |-> after.id, AggregateID |-> after.aggregate_id,
          Payload |-> after.payload, Status |-> after.status,
          CreatedAt |-> IF ShapeOf(after).created_at \in {"number", "string"}
                        THEN after.created_at ELSE ZeroTime]

\* if change.Op != "c" && change.Op != "u": skipped
IsProcessedOp_notDelete(op) == op # "d"

IsProcessedOp(op) == op = "c" \/ op = "u"

\* json.Unmarshal([]byte(outbox.Payload), &payload) succeeds
PayloadParses_always(payload) == TRUE

PayloadParses(payload) == payload.valid

\* the handler's checks up to orderID := int64(payload["id"].(float64)); the type
\* assertion panics when the payload has no numeric id
Decode(rec) ==
    IF rec = BadBody THEN "invalid json"
    ELSE IF ~IsProcessedOp(rec.op) THEN "skipped"
    ELSE IF rec.after = NilAfter THEN "skipped"
    ELSE IF ExtractError(rec.after) # "" THEN "failed to extract outbox"
    ELSE IF ~PayloadParses(rec.after.payload) THEN "invalid payload json"
    ELSE IF ~rec.after.payload.hasId THEN "panic"
    ELSE "ok"

\* what extractOutbox returned to the handler, if the handler got that far
Extracted(rec) ==
    IF rec = BadBody THEN NoMsg
    ELSE IF ~IsProcessedOp(rec.op) \/ rec.after = NilAfter THEN NoMsg
    ELSE ExtractOutbox(rec.after)

\* the answer of a request that ends in the decoding stage
DecodeAnswer(d) ==
    CASE d = "skipped" -> "200 skipped"
      [] d = "panic" -> "panic"
      [] OTHER -> "400 " \o d

\* orderID := int64(payload["id"].(float64)); float64 holds the ids of the model
\* (far below 2^53) exactly
OrderIDOf_rowId(after) == after.id

OrderIDOf(after) == after.payload.id

\* callWebhook's request body: {"order_id": orderID, "status": status}
WebhookRequest(orderID, status) == [order_id |-> orderID, status |-> status]

\* callWebhook: resp.StatusCode < 200 || resp.StatusCode >= 300 is an error;
\* code 0 stands for httpClient.Do returning an error
IsSuccess_anyResponse(code) == code # 0

IsSuccess(code) == code >= 200 /\ code < 300

\* the error callWebhook returns for the sink's answer (nil on success)
CallWebhook_below400(code) ==
    IF code = 0 THEN [msg |-> "failed to call webhook", status |-> 0]
    ELSE IF code < 200 \/ code >= 400
         THEN [msg |-> "webhook returned status", status |-> code]
         ELSE [msg |-> "nil", status |-> code]

CallWebhook(code) ==
    IF code = 0 THEN [msg |-> "failed to call webhook", status |-> 0]
    ELSE IF ~IsSuccess(code) THEN [msg |-> "webhook returned status", status |-> code]
    ELSE [msg |-> "nil", status |-> code]

\* UPDATE outbox SET status = 'published', published_at = NOW() WHERE id = $1
MarkPublished_statusOnly(tbl, id, t) ==
    IF id \in DOMAIN tbl THEN [tbl EXCEPT ![id].status = "published"] ELSE tbl

MarkPublished(tbl, id, t) ==
    IF id \in DOMAIN tbl
    THEN [tbl EXCEPT ![id].status = "published", ![id].published_at = t]
    ELSE tbl

MarkRowsAffected(tbl, id) == IF id \in DOMAIN tbl THEN 1 ELSE 0

\* the update is captured as an "u" record when it touched a row
CaptureUpdate(tbl, id) ==
    IF id \in DOMAIN tbl THEN Append(stream, ChangeRecord("u", tbl[id])) ELSE stream

RowOf(h) == IF hs[h].rec = NoRec THEN 0 ELSE hs[h].rec.after.id

Busy(h) == hs[h].pc # "idle"

\* the handler answers and returns in the decoding stage
Rejected_exit(h, rec, d) ==
    [g \in Handlers |-> [HandlerIdle EXCEPT !.pc = "exited", !.got = rec,
                                            !.ob = Extracted(rec),
                                            !.resp = DecodeAnswer(d)]]

Rejected(h, rec, d) ==
    [hs EXCEPT ![h] = [HandlerIdle EXCEPT !.got = rec, !.ob = Extracted(rec),
                                          !.resp = DecodeAnswer(d)]]

\* POST /debezium arrives: body read, unmarshalled, filtered and decoded; the
\* request runs on the first free goroutine slot
Receive(h) ==
    /\ deployment = "http"
    /\ boot["relay"] = "serving"
    /\ hs[h].pc = "idle"
    /\ \A g \in Handlers : g < h => Busy(g)
    /\ nposts < MaxPosts
    /\ nposts' = nposts + 1
    /\ \E i \in 1..Len(stream) :
         /\ \/ i = next /\ next' = next + 1 /\ UNCHANGED ndups
            \/ i < next /\ ndups < MaxDups /\ ndups' = ndups + 1 /\ UNCHANGED next
         /\ LET rec == stream[i]
                d == Decode(rec)
                peers == {g \in Handlers \ {h} : Busy(g) /\ RowOf(g) = rec.after.id}
            IN  IF d = "ok"
                THEN hs' = [g \in Handlers |->
                              IF g = h
                              THEN [HandlerIdle EXCEPT
                                      !.pc = "decoded", !.got = rec, !.rec = rec,
                                      !.ob = Extracted(rec),
                                      !.orderID = OrderIDOf(rec.after),
                                      !.concur = peers # {}]
                              ELSE IF g \in peers
                                   THEN [hs[g] EXCEPT !.concur = TRUE]
                                   ELSE hs[g]]
                ELSE hs' = Rejected(h, rec, d)
    /\ UNCHANGED <<envVars, deployment, now, faults, dbVars, req, stream, started, delivered, krelay>>

\* relayServer.callWebhook(orderID, "finished"): the request leaves the relay
StartDelivery_updateFirst(h) ==
    /\ hs[h].pc = "decoded"
    /\ hs' = [hs EXCEPT ![h].pc = "inflight",
                        ![h].sent = WebhookRequest(hs[h].orderID, "finished")]
    /\ started' = started \cup {RowOf(h)}
    /\ outbox' = MarkPublished(outbox, RowOf(h), now)
    /\ UNCHANGED <<envVars, deployment, now, faults, orders, nextOrderId, nextOutboxId,
                   req, stream, next, nposts, ndups, delivered, krelay>>

StartDelivery(h) ==
    /\ hs[h].pc = "decoded"
    /\ hs' = [hs EXCEPT ![h].pc = "inflight",
                        ![h].sent = WebhookRequest(hs[h].orderID, "finished")]
    /\ started' = started \cup {RowOf(h)}
    /\ UNCHANGED <<envVars, deployment, now, faults, dbVars, req, stream, next, nposts, ndups,
                   delivered, krelay>>

\* what the handler does with callWebhook's result
AfterWebhook(h, code) ==
    IF CallWebhook(code).msg = "nil"
    THEN /\ hs' = [hs EXCEPT ![h].pc = "delivered", ![h].code = code,
                             ![h].werr = CallWebhook(code)]
         /\ delivered' = delivered \cup {RowOf(h)}
    ELSE /\ hs' = [hs EXCEPT ![h].pc = "idle", ![h].code = code,
                             ![h].werr = CallWebhook(code),
                             ![h].resp = "500 webhook call failed"]
         /\ UNCHANGED delivered

\* the sink (finishOrderHandler) handles the request and callWebhook returns
SinkRespond(h) ==
    /\ hs[h].pc = "inflight"
    /\ hs[h].mock = NoMsg
    /\ \/ /\ boot["webhook-consumer"] = "serving"
          /\ orders' = IF BindOK(hs[h].sent.order_id, hs[h].sent.status)
                       THEN FinishUpdate(hs[h].sent.order_id, hs[h].sent.status)
                       ELSE orders
          /\ AfterWebhook(h, FinishCode(hs[h].sent.order_id, hs[h].sent.status))
          /\ UNCHANGED faults
       \/ /\ faults > 0                 \* the sink's database call fails
          /\ boot["webhook-consumer"] = "serving"
          /\ BindOK(hs[h].sent.order_id, hs[h].sent.status)
          /\ faults' = faults - 1
          /\ AfterWebhook(h, 500)
          /\ UNCHANGED orders
       \/ /\ faults > 0                 \* httpClient.Do fails or times out
          /\ faults' = faults - 1
          /\ AfterWebhook(h, 0)
          /\ UNCHANGED orders
    /\ UNCHANGED <<envVars, deployment, now, outbox, nextOrderId, nextOutboxId, req, stream,
                   next, nposts, ndups, started, krelay>>

\* gin.H{"status": "processed", "outbox_id": outbox.ID, "order_id": orderID}
ProcessedBody(h) == [outbox_id |-> RowOf(h), order_id |-> hs[h].orderID]

\* the handler's answer when ExecContext returns an error
MarkErrorAnswer_ignored == "200 processed"

MarkErrorAnswer == "500 failed to mark published"

\* ExecContext(UPDATE outbox ...) and the handler's answer
MarkStep(h) ==
    /\ hs[h].pc = "delivered"
    /\ \/ \E t \in Clock :
            /\ now' = t
            /\ outbox' = MarkPublished(outbox, RowOf(h), t)
            /\ stream' = CaptureUpdate(outbox', RowOf(h))
            /\ hs' = [hs EXCEPT ![h].pc = "idle", ![h].resp = "200 processed",
                                ![h].body = ProcessedBody(h),
                                ![h].affected = MarkRowsAffected(outbox, RowOf(h))]
            /\ UNCHANGED faults
       \/ /\ faults > 0
          /\ faults' = faults - 1
          /\ hs' = [hs EXCEPT ![h].pc = "idle", ![h].resp = MarkErrorAnswer]
          /\ UNCHANGED <<now, outbox, stream>>
    /\ UNCHANGED <<envVars, deployment, orders, nextOrderId, nextOutboxId, req, next, nposts,
                   ndups, started, delivered, krelay>>

\* ---------------------------------------------- relay: Kafka consumer loop
\* off: the consumer's position; committed: the group's committed offset, where a
\* restarted consumer resumes; crashes: the number of crashes so far
KafkaIdle == [pc |-> "poll", off |-> 1, rec |-> NoRec, committed |-> 1, crashes |-> 0]

\* if cdcMessage.Payload.Op == "c" { outbox = cdcMessage.Payload.After }
KafkaSelect(rec) ==
    IF rec.op = "c" /\ rec.after # NilAfter THEN rec ELSE NoRec

\* c.ReadMessage, json.Unmarshal, the op filter
KafkaRead ==
    /\ deployment = "kafka"
    /\ boot["relay"] \in {"serving", "degraded"}
    /\ krelay.pc = "poll"
    /\ krelay.off <= Len(stream)
    /\ LET sel == KafkaSelect(stream[krelay.off])
       IN  krelay' = [krelay EXCEPT !.pc = IF sel = NoRec THEN "poll" ELSE "sleep",
                                    !.off = krelay.off + 1, !.rec = sel]
    /\ UNCHANGED <<envVars, deployment, now, faults, dbVars, req, stream, next, nposts, ndups,
                   hs, started, delivered>>

\* time.Sleep, then UPDATE outbox SET status = 'published', published_at = ? WHERE id = ?
KafkaUpdate ==
    /\ krelay.pc = "sleep"
    /\ boot["relay"] = "serving"
    /\ \/ \E t \in Clock :
            /\ now' = t
            /\ outbox' = MarkPublished(outbox, krelay.rec.after.id, t)
            /\ stream' = CaptureUpdate(outbox', krelay.rec.after.id)
            /\ UNCHANGED faults
       \/ /\ faults > 0
          /\ faults' = faults - 1
          /\ UNCHANGED <<now, outbox, stream>>
    /\ krelay' = [krelay EXCEPT !.pc = "poll"]
    /\ UNCHANGED <<envVars, deployment, orders, nextOrderId, nextOutboxId, req, next, nposts,
                   ndups, hs, started, delivered>>

\* the consumer is created with the client's defaults, enable.auto.commit and
\* enable.auto.offset.store: the position after the last message handed to the
\* loop is committed in the background, every auto.commit.interval.ms
KafkaAutoCommit ==
    /\ deployment = "kafka"
    /\ krelay.committed < krelay.off
    /\ krelay' = [krelay EXCEPT !.committed = krelay.off]
    /\ UNCHANGED <<envVars, deployment, now, faults, dbVars, req, stream, next, nposts, ndups,
                   hs, started, delivered>>

\* the process dies at any point of the loop and is started again: the new
\* consumer of the group resumes at the committed offset
KafkaCrash ==
    /\ deployment = "kafka"
    /\ krelay.crashes < MaxCrashes
    /\ krelay' = [krelay EXCEPT !.pc = "poll", !.off = krelay.committed,
                                !.rec = NoRec, !.crashes = krelay.crashes + 1]
    /\ UNCHANGED <<envVars, deployment, now, faults, dbVars, req, stream, next, nposts, ndups,
                   hs, started, delivered>>

\* --------------------------------------- notification consumer (kafkajs)
\* topic: the messages of the partition, offsets from 0; pos: the offset the
\* consumer hands to the handler next; off: the offset being handled; committed:
\* the group's committed offset at the broker; done: the offsets whose
\* notification was processed, in order; failed: the offsets whose last handling
\* ended in the catch block
NotifIdle == [topic |-> <<>>, pc |-> "idle", pos |-> 0, off |-> 0, committed |-> 0,
              done |-> <<>>, failed |-> {}, faults |-> MaxFaults, restarts |-> 0]

\* what the other variables do in a step of the notification consumer
NotifOnly ==
    UNCHANGED <<boot, callCount, polled, environ, received, conf, deployment, now,
                faults, dbVars, req, stream, relayVars>>

\* the consumer runs with autoCommit: false and hands the next message of the
\* partition to handleOrderCreated
NotifDeliver ==
    /\ notif.pc = "idle"
    /\ notif.pos < Len(notif.topic)
    /\ notif' = [notif EXCEPT !.pc = "handling", !.off = notif.pos]
    /\ NotifOnly

\* the offset handleOrderCreated commits for the message at offset off:
\* (parseInt(offset) + 1).toString()
CommitOffsetOf(off) == off + 1

\* the handler returns: the catch block has logged the error, nothing is thrown
\* to the consumer, which goes on to the next message
Caught(off) ==
    [notif EXCEPT !.pc = "idle", !.pos = off + 1, !.failed = notif.failed \cup {off}]

\* the try block up to the commit: payload.orderId of a null payload throws
NotifProcess ==
    /\ notif.pc = "handling"
    /\ notif' = IF notif.topic[notif.off + 1] = "null"
                THEN Caught(notif.off)
                ELSE [notif EXCEPT !.pc = "committing",
                                   !.done = Append(notif.done, notif.off)]
    /\ NotifOnly

\* await context.getConsumer().commitOffsets([...]): the commit is made or rejects
NotifCommit ==
    /\ notif.pc = "committing"
    /\ \/ notif' = [notif EXCEPT !.pc = "idle", !.pos = notif.off + 1,
                                  !.committed = CommitOffsetOf(notif.off),
                                  !.failed = notif.failed \ {notif.off}]
       \/ /\ notif.faults > 0
          /\ notif' = [Caught(notif.off) EXCEPT !.faults = notif.faults - 1]
    /\ NotifOnly

\* the consumer leaves and joins the group again (restart or rebalance): it
\* resumes at the group's committed offset
NotifRestart ==
    /\ notif.restarts < MaxCrashes
    /\ notif' = [notif EXCEPT !.pc = "idle", !.pos = notif.committed,
                              !.restarts = notif.restarts + 1]
    /\ NotifOnly

\* ------------------------------------------------------ polling the outbox
\* idx_outbox_pending ON outbox(status, created_at) WHERE status = 'pending':
\* the rows the partial index holds
PendingIndex_allRows(tbl) == DOMAIN tbl

PendingIndex(tbl) == {id \in DOMAIN tbl : tbl[id].status = "pending"}

\* the orders in which a scan of the index can return its rows: ascending in
\* created_at, rows of equal created_at in either order
ScanOrders(tbl) ==
    LET ids == PendingIndex(tbl)
        n == Cardinality(ids)
    IN  {q \in [1..n -> ids] :
           /\ \A i, j \in 1..n : i # j => q[i] # q[j]
           /\ \A i, j \in 1..n : i < j => tbl[q[i]].created_at <= tbl[q[j]].created_at}

\* SELECT * FROM outbox WHERE status = 'pending' ORDER BY created_at ASC
Poll ==
    /\ \E q \in ScanOrders(outbox) : polled' = q
    /\ UNCHANGED <<boot, callCount, environ, received, notif, conf, deployment, now, faults,
                   dbVars, req, stream, relayVars>>

\* ------------------------------------------------- start and end of a process
\* main: db.Init() opens and pings the database, then the port is read and the
\* loop is entered
StartUp(s) ==
    /\ boot[s] = "init"
    /\ \E reachable \in BOOLEAN :
         boot' = [boot EXCEPT ![s] = IF reachable THEN "serving"
                                     ELSE IF ChecksInitError(s) THEN "exited"
                                     ELSE "degraded"]
    /\ conf' = IF boot'[s] = "exited" THEN conf ELSE [conf EXCEPT ![s] = PortOf(s)]
    /\ UNCHANGED <<callCount, polled, environ, received, notif, deployment, now, faults, dbVars, req,
                   stream, relayVars>>

\* the order service serving with a database handle that cannot connect:
\* db.Begin() returns an error
BeginDegraded(r) ==
    /\ boot["order-service"] = "degraded"
    /\ req[r].pc = "idle"
    /\ \A q \in Reqs : q < r => req[q].pc # "idle"
    /\ req' = [req EXCEPT ![r].pc = "done", ![r].code = 500, ![r].tx = "none"]
    /\ UNCHANGED <<envVars, deployment, now, faults, dbVars, stream, relayVars>>

\* the Kafka relay with such a handle: ExecContext returns an error, the loop
\* logs it and goes on to the next message
KafkaUpdateDegraded ==
    /\ krelay.pc = "sleep"
    /\ boot["relay"] = "degraded"
    /\ krelay' = [krelay EXCEPT !.pc = "poll"]
    /\ UNCHANGED <<envVars, deployment, now, faults, dbVars, req, stream, next, nposts,
                   ndups, hs, started, delivered>>

\* SIGINT or SIGTERM reaches the relay: neither main installs a handler, so the
\* process ends at once, whatever its goroutines are doing
Shutdown ==
    /\ boot["relay"] \in {"serving", "degraded"}
    /\ boot' = [boot EXCEPT !["relay"] = "exited"]
    /\ hs' = [h \in Handlers |-> IF Busy(h) THEN [hs[h] EXCEPT !.pc = "killed"] ELSE hs[h]]
    /\ krelay' = [krelay EXCEPT !.pc = "exited"]
    /\ UNCHANGED <<callCount, polled, environ, received, notif, conf, deployment, now, faults, dbVars,
                   req, stream, next, nposts, ndups, started, delivered>>

\* ------------------------------------------- relay under the test harness
\* the httptest server of main_test.go in place of the sink: it answers with
\* the status code the test case gives it
SinkCodes == {200, 299, 300, 500}

MockSinkRespond(h) ==
    /\ hs[h].pc = "inflight"
    /\ \E code \in SinkCodes : AfterWebhook(h, code)
    /\ UNCHANGED <<envVars, deployment, now, faults, dbVars, req, stream, next, nposts, ndups,
                   started, krelay>>

\* TestRelayServerCallWebhookConcurrency: goroutine g calls rs.callWebhook
\* directly. The requests one invocation puts on the wire: one httpClient.Do, no
\* retry
Sends_retried(g) == <<[conn |-> g, body |-> hs[g].sent], [conn |-> g, body |-> hs[g].sent]>>

Sends(g) == <<[conn |-> g, body |-> hs[g].sent]>>

CallStart(g) ==
    /\ hs[g].pc = "decoded"
    /\ hs' = [hs EXCEPT ![g].pc = "inflight",
                        ![g].sent = WebhookRequest(hs[g].orderID, "finished")]
    /\ UNCHANGED <<envVars, deployment, now, faults, dbVars, req, stream, next, nposts,
                   ndups, started, delivered, krelay>>

\* the test server's handler runs for what g sent; callCount++ is a read and a
\* write of a variable shared by the server's goroutines without synchronisation
CountLoad(g) ==
    /\ hs[g].pc = "inflight"
    /\ received' = received \o Sends(g)
    /\ hs' = [hs EXCEPT ![g].pc = "counting", ![g].seen = callCount]
    /\ UNCHANGED <<boot, callCount, polled, environ, notif, conf, deployment, now, faults,
                   dbVars, req, stream, next, nposts, ndups, started, delivered, krelay>>

\* callCount is written, w.WriteHeader(http.StatusOK), and callWebhook returns
CountStore(g) ==
    /\ hs[g].pc = "counting"
    /\ callCount' = hs[g].seen + 1
    /\ hs' = [hs EXCEPT ![g].pc = "returned", ![g].code = 200,
                        ![g].werr = CallWebhook(200)]
    /\ UNCHANGED <<boot, polled, environ, received, notif, conf, deployment, now, faults,
                   dbVars, req, stream, next, nposts, ndups, started, delivered, krelay>>

\* finishOrderHandler over the sqlmock database of its tests: the mock returns
\* what the test case told it to, and there is no table behind it
SqlmockRespond(h) ==
    /\ hs[h].pc = "inflight"
    /\ hs[h].mock # NoMsg
    /\ AfterWebhook(h, FinishAnswer(BindOK(hs[h].sent.order_id, hs[h].sent.status),
                                    hs[h].mock.execErr, hs[h].mock.raErr,
                                    hs[h].mock.rows))
    /\ UNCHANGED <<envVars, deployment, now, faults, dbVars, req, stream, next, nposts,
                   ndups, started, krelay>>

\* httpClient = &http.Client{Timeout: 5 * time.Second}; a zero Timeout means no
\* timeout
ClientTimeoutSeconds == 5

HasTimeout_none == FALSE

HasTimeout == ClientTimeoutSeconds > 0

\* the client's timer expires before the sink has answered: httpClient.Do
\* returns an error
ClientTimeout(h) ==
    /\ hs[h].pc = "inflight"
    /\ HasTimeout
    /\ AfterWebhook(h, 0)
    /\ UNCHANGED <<envVars, deployment, now, faults, dbVars, req, stream, next, nposts, ndups,
                   started, krelay>>

\* ------------------------------------------------------- specifications
Deployments == {"http", "kafka"}

Init ==
    /\ deployment \in Deployments
    /\ now = 0
    /\ faults = MaxFaults
    /\ orders = <<>>
    /\ outbox = <<>>
    /\ nextOrderId = 1
    /\ nextOutboxId = 1
    /\ req = [r \in Reqs |-> ReqIdle]
    /\ stream = <<>>
    /\ next = 1
    /\ nposts = 0
    /\ ndups = 0
    /\ hs = [h \in Handlers |-> HandlerIdle]
    /\ started = {}
    /\ delivered = {}
    /\ krelay = KafkaIdle
    /\ boot = [s \in Services |-> "serving"]
    /\ callCount = 0
    /\ notif = NotifIdle
    /\ received = <<>>
    /\ polled = <<>>
    /\ environ = NoEnv
    /\ conf = [s \in Services |-> PortOf(s)]

Next ==
    \/ \E r \in SystemReqs : Begin(r)
    \/ \E r \in SystemReqs : InsertOrder(r)
    \/ \E r \in SystemReqs : InsertOutbox(r)
    \/ \E r \in SystemReqs : Commit(r)
    \/ \E h \in Handlers : Receive(h)
    \/ \E h \in Handlers : StartDelivery(h)
    \/ \E h \in Handlers : SinkRespond(h)
    \/ \E h \in Handlers : MarkStep(h)
    \/ KafkaRead
    \/ KafkaUpdate

Spec == Init /\ [][Next]_vars

\* the relay alone, over an outbox table that already holds two pending rows whose
\* create records are in the stream; the second row is of aggregate a2, and the
\* sink's orders table may or may not hold the order that row refers to
SeedOrder(id) == [id |-> id, status |-> "pending"]

SeedRow(id, aggregateId, t) == OutboxRow(id, aggregateId, Marshal(SeedOrder(aggregateId)), t)

InitRelay ==
    /\ deployment = "http"
    /\ now = 1
    /\ faults = MaxFaults
    /\ \E os \in {{1}, {1, 2}} : orders = [o \in os |-> [status |-> "pending"]]
    /\ \E a2 \in {1, 2} :
         /\ outbox = (1 :> SeedRow(1, 1, 0)) @@ (2 :> SeedRow(2, a2, 1))
         /\ stream = <<ChangeRecord("c", SeedRow(1, 1, 0)), ChangeRecord("c", SeedRow(2, a2, 1))>>
    /\ nextOrderId = 3
    /\ nextOutboxId = 3
    /\ req = [r \in Reqs |-> ReqIdle]
    /\ next = 1
    /\ nposts = 0
    /\ ndups = 0
    /\ hs = [h \in Handlers |-> HandlerIdle]
    /\ started = {}
    /\ delivered = {}
    /\ krelay = KafkaIdle
    /\ boot = [s \in Services |-> "serving"]
    /\ callCount = 0
    /\ notif = NotifIdle
    /\ received = <<>>
    /\ polled = <<>>
    /\ environ = NoEnv
    /\ conf = [s \in Services |-> PortOf(s)]

NextRelay ==
    \/ \E h \in Handlers : Receive(h)
    \/ \E h \in Handlers : StartDelivery(h)
    \/ \E h \in Handlers : SinkRespond(h)
    \/ \E h \in Handlers : MarkStep(h)

SpecRelay == InitRelay /\ [][NextRelay]_vars

\* the HTTP relay working through two pending rows, created in either order or at
\* the same time, while the table is polled
InitPoll ==
    /\ deployment = "http"
    /\ now = MaxNow
    /\ faults = MaxFaults
    /\ orders = [o \in {1, 2} |-> [status |-> "pending"]]
    /\ \E t1, t2 \in Clock :
         /\ outbox = (1 :> SeedRow(1, 1, t1)) @@ (2 :> SeedRow(2, 2, t2))
         /\ stream = <<ChangeRecord("c", SeedRow(1, 1, t1)), ChangeRecord("c", SeedRow(2, 2, t2))>>
    /\ nextOrderId = 3
    /\ nextOutboxId = 3
    /\ req = [r \in Reqs |-> ReqIdle]
    /\ next = 1
    /\ nposts = 0
    /\ ndups = 0
    /\ hs = [h \in Handlers |-> HandlerIdle]
    /\ started = {}
    /\ delivered = {}
    /\ krelay = KafkaIdle
    /\ boot = [s \in Services |-> "serving"]
    /\ callCount = 0
    /\ notif = NotifIdle
    /\ received = <<>>
    /\ polled = <<>>
    /\ environ = NoEnv
    /\ conf = [s \in Services |-> PortOf(s)]

NextPoll ==
    \/ NextRelay
    \/ Poll

SpecPoll == InitPoll /\ [][NextPoll]_vars

\* the order service taking MaxOrders requests, the HTTP relay and the sink, in
\* runs where no call fails and no change record is posted twice
NextPair ==
    \/ \E r \in Reqs : Begin(r)
    \/ \E r \in Reqs : InsertOrder(r)
    \/ \E r \in Reqs : InsertOutbox(r)
    \/ \E r \in Reqs : Commit(r)
    \/ \E h \in Handlers : Receive(h)
    \/ \E h \in Handlers : StartDelivery(h)
    \/ \E h \in Handlers : SinkRespond(h)
    \/ \E h \in Handlers : MarkStep(h)

InitPair ==
    /\ deployment = "http"
    /\ now = MaxNow
    /\ faults = 0
    /\ orders = <<>>
    /\ outbox = <<>>
    /\ nextOrderId = 1
    /\ nextOutboxId = 1
    /\ req = [r \in Reqs |-> ReqIdle]
    /\ stream = <<>>
    /\ next = 1
    /\ nposts = 0
    /\ ndups = MaxDups
    /\ hs = [h \in Handlers |-> HandlerIdle]
    /\ started = {}
    /\ delivered = {}
    /\ krelay = KafkaIdle
    /\ boot = [s \in Services |-> "serving"]
    /\ callCount = 0
    /\ notif = NotifIdle
    /\ received = <<>>
    /\ polled = <<>>
    /\ environ = NoEnv
    /\ conf = [s \in Services |-> PortOf(s)]

SpecPair == InitPair /\ [][NextPair]_vars

\* the order service and the Kafka relay; under fair scheduling every handler and
\* the relay loop keep running, and failures are transient (at most MaxFaults)
InitKafka == Init /\ deployment = "kafka"

NextKafka ==
    \/ \E r \in Reqs : Begin(r)
    \/ \E r \in Reqs : InsertOrder(r)
    \/ \E r \in Reqs : InsertOutbox(r)
    \/ \E r \in Reqs : Commit(r)
    \/ KafkaRead
    \/ KafkaUpdate

SpecKafka == InitKafka /\ [][NextKafka]_vars

SpecKafkaLive == SpecKafka /\ WF_vars(NextKafka)

\* the services from the start of their processes, in an environment where PORT
\* is not set, set to the empty string or set to a port
Environs == {NoEnv, [k \in {"PORT"} |-> ""], [k \in {"PORT"} |-> "9090"]}

InitLifecycle ==
    /\ deployment \in Deployments
    /\ now = 0
    /\ faults = MaxFaults
    /\ orders = <<>>
    /\ outbox = <<>>
    /\ nextOrderId = 1
    /\ nextOutboxId = 1
    /\ req = [r \in Reqs |-> ReqIdle]
    /\ stream = <<>>
    /\ next = 1
    /\ nposts = 0
    /\ ndups = 0
    /\ hs = [h \in Handlers |-> HandlerIdle]
    /\ started = {}
    /\ delivered = {}
    /\ krelay = KafkaIdle
    /\ boot = [s \in Services |-> "init"]
    /\ callCount = 0
    /\ notif = NotifIdle
    /\ received = <<>>
    /\ polled = <<>>
    /\ environ \in Environs
    /\ conf = [s \in Services |-> "unread"]

NextLifecycle ==
    \/ Next
    \/ \E s \in Services : StartUp(s)
    \/ \E r \in SystemReqs : BeginDegraded(r)
    \/ KafkaUpdateDegraded
    \/ Shutdown

SpecLifecycle == InitLifecycle /\ [][NextLifecycle]_vars

\* the Kafka relay with crashes and restarts of its process
NextKafkaCrash ==
    \/ NextKafka
    \/ KafkaAutoCommit
    \/ KafkaCrash

SpecKafkaCrash == InitKafka /\ [][NextKafkaCrash]_vars

\* the request bodies the handler is given: every op code with every after image
\* built on a pending row, and a body that is not JSON
Ops == {"c", "u", "d", "r"}

RequiredFields == {"id", "aggregate_id", "payload", "status"}

\* a payload string that is not JSON, and one that is JSON without a numeric id
BadPayload == [valid |-> FALSE, hasId |-> FALSE, id |-> 0, status |-> ""]

NoIdPayload == [valid |-> TRUE, hasId |-> FALSE, id |-> 0, status |-> "pending"]

\* the after image of row with field f absent ("absent") or of another JSON kind
Misshapen(row, f, kind) ==
    [id |-> row.id, aggregate_id |-> row.aggregate_id, payload |-> row.payload,
     status |-> row.status, created_at |-> row.created_at,
     published_at |-> row.published_at, shape |-> [RowShape EXCEPT ![f] = kind]]

WrongKind(f) == IF f = "id" THEN "string" ELSE "number"

Images(row) ==
    {row, NilAfter, [row EXCEPT !.payload = BadPayload],
     [row EXCEPT !.payload = NoIdPayload]}
    \cup {Misshapen(row, f, "absent") : f \in RequiredFields}
    \cup {Misshapen(row, f, WrongKind(f)) : f \in RequiredFields}

Bodies(row) == {BadBody} \cup {[op |-> op, after |-> a] : op \in Ops, a \in Images(row)}

\* TestDebeziumHandler: the relay is given one body built on the first pending
\* row, then the create record of the second row; the sink is the mock server
HarnessGiven(bodies) ==
    /\ deployment = "http"
    /\ now = 1
    /\ faults = MaxFaults
    /\ orders = [o \in {1, 2} |-> [status |-> "pending"]]
    /\ outbox = (1 :> SeedRow(1, 1, 0)) @@ (2 :> SeedRow(2, 2, 1))
    /\ \E b \in bodies :
         stream = <<b, ChangeRecord("c", SeedRow(2, 2, 1))>>
    /\ nextOrderId = 3
    /\ nextOutboxId = 3
    /\ req = [r \in Reqs |-> ReqIdle]
    /\ next = 1
    /\ nposts = 0
    /\ ndups = 0
    /\ hs = [h \in Handlers |-> HandlerIdle]
    /\ started = {}
    /\ delivered = {}
    /\ krelay = KafkaIdle
    /\ boot = [s \in Services |-> "serving"]
    /\ callCount = 0
    /\ notif = NotifIdle
    /\ received = <<>>
    /\ polled = <<>>
    /\ environ = NoEnv
    /\ conf = [s \in Services |-> PortOf(s)]

InitHarness == HarnessGiven(Bodies(SeedRow(1, 1, 0)))

NextHarness ==
    \/ \E h \in Handlers : Receive(h)
    \/ \E h \in Handlers : StartDelivery(h)
    \/ \E h \in Handlers : MockSinkRespond(h)
    \/ \E h \in Handlers : ClientTimeout(h)
    \/ \E h \in Handlers : MarkStep(h)

SpecHarness == InitHarness /\ [][NextHarness]_vars

\* the harness given a create record that is well-formed or has a payload that
\* is not JSON; every request is handled by its own goroutine and the sender
\* posts what it has; nothing makes the sink answer
InitHarnessLive ==
    /\ InitHarness
    /\ stream[1] \in {ChangeRecord("c", SeedRow(1, 1, 0)),
                      ChangeRecord("c", [SeedRow(1, 1, 0) EXCEPT !.payload = BadPayload])}

SpecHarnessLive ==
    /\ InitHarnessLive
    /\ [][NextHarness]_vars
    /\ \A h \in Handlers :
         /\ WF_vars(Receive(h))
         /\ WF_vars(StartDelivery(h))
         /\ WF_vars(ClientTimeout(h))
         /\ WF_vars(MarkStep(h))

\* TestExtractOutbox: the handler is given one create record whose after image
\* has any combination of kinds of its fields; status may be the empty string
FieldKinds(f) ==
    CASE f = "id" -> {"number", "string", "absent"}
      [] f = "created_at" -> {"number", "string", "badstring", "absent"}
      [] OTHER -> {"string", "number", "absent"}

Shapes == {s \in [DOMAIN RowShape -> {"number", "string", "badstring", "absent"}] :
             \A f \in DOMAIN RowShape : s[f] \in FieldKinds(f)}

Reshaped(row, s) ==
    [id |-> row.id, aggregate_id |-> row.aggregate_id, payload |-> row.payload,
     status |-> row.status, created_at |-> row.created_at,
     published_at |-> row.published_at, shape |-> s]

InitExtract ==
    HarnessGiven({[op |-> "c",
                   after |-> Reshaped([SeedRow(1, 1, 0) EXCEPT !.status = st], s)] :
                     s \in Shapes, st \in {"pending", ""}})

NextExtract == \E h \in Handlers : Receive(h)

SpecExtract == InitExtract /\ [][NextExtract]_vars

\* either relay is given one change record of the first row, with any operation
\* tag, with or without an after image, the image 'pending' or 'published', and
\* then the create record of the second row
Tagged(row) ==
    {[op |-> op, after |-> a] :
       op \in Ops, a \in {row, [row EXCEPT !.status = "published"], NilAfter}}

InitDecide ==
    /\ deployment \in Deployments
    /\ now = 1
    /\ faults = MaxFaults
    /\ orders = [o \in {1, 2} |-> [status |-> "pending"]]
    /\ outbox = (1 :> SeedRow(1, 1, 0)) @@ (2 :> SeedRow(2, 2, 1))
    /\ \E b \in Tagged(SeedRow(1, 1, 0)) :
         stream = <<b, ChangeRecord("c", SeedRow(2, 2, 1))>>
    /\ nextOrderId = 3
    /\ nextOutboxId = 3
    /\ req = [r \in Reqs |-> ReqIdle]
    /\ next = 1
    /\ nposts = 0
    /\ ndups = 0
    /\ hs = [h \in Handlers |-> HandlerIdle]
    /\ started = {}
    /\ delivered = {}
    /\ krelay = KafkaIdle
    /\ boot = [s \in Services |-> "serving"]
    /\ callCount = 0
    /\ notif = NotifIdle
    /\ received = <<>>
    /\ polled = <<>>
    /\ environ = NoEnv
    /\ conf = [s \in Services |-> PortOf(s)]

NextDecide ==
    \/ \E h \in Handlers : Receive(h)
    \/ KafkaRead
    \/ KafkaUpdate

SpecDecide == InitDecide /\ [][NextDecide]_vars

\* the notification consumer over a partition of MaxMsgs messages, each an order
\* event or a message without a payload
InitNotif ==
    /\ deployment = "kafka"
    /\ now = 0
    /\ faults = MaxFaults
    /\ orders = <<>>
    /\ outbox = <<>>
    /\ nextOrderId = 1
    /\ nextOutboxId = 1
    /\ req = [r \in Reqs |-> ReqIdle]
    /\ stream = <<>>
    /\ next = 1
    /\ nposts = 0
    /\ ndups = 0
    /\ hs = [h \in Handlers |-> HandlerIdle]
    /\ started = {}
    /\ delivered = {}
    /\ krelay = KafkaIdle
    /\ boot = [s \in Services |-> "serving"]
    /\ callCount = 0
    /\ \E t \in [1..MaxMsgs -> {"order", "null"}] : notif = [NotifIdle EXCEPT !.topic = t]
    /\ received = <<>>
    /\ polled = <<>>
    /\ environ = NoEnv
    /\ conf = [s \in Services |-> PortOf(s)]

NextNotif ==
    \/ NotifDeliver
    \/ NotifProcess
    \/ NotifCommit
    \/ NotifRestart

SpecNotif == InitNotif /\ [][NextNotif]_vars

\* TestRelayServerCallWebhookConcurrency: NumCalls goroutines, goroutine i calling
\* callWebhook(i, "finished") on one RelayServer whose sink always answers 200
Callers == 1..NumCalls

InitConcurrency ==
    /\ deployment = "http"
    /\ now = 1
    /\ faults = MaxFaults
    /\ orders = <<>>
    /\ outbox = <<>>
    /\ stream = <<>>
    /\ nextOrderId = 1
    /\ nextOutboxId = 1
    /\ req = [r \in Reqs |-> ReqIdle]
    /\ next = 1
    /\ nposts = 0
    /\ ndups = 0
    /\ hs = [g \in Callers |-> [HandlerIdle EXCEPT !.pc = "decoded", !.orderID = g - 1]]
    /\ started = {}
    /\ delivered = {}
    /\ krelay = KafkaIdle
    /\ boot = [s \in Services |-> "serving"]
    /\ callCount = 0
    /\ notif = NotifIdle
    /\ received = <<>>
    /\ polled = <<>>
    /\ environ = NoEnv
    /\ conf = [s \in Services |-> PortOf(s)]

NextConcurrency ==
    \/ \E g \in Callers : CallStart(g)
    \/ \E g \in Callers : CountLoad(g)
    \/ \E g \in Callers : CountStore(g)

SpecConcurrency == InitConcurrency /\ [][NextConcurrency]_vars

\* TestFinishOrderHandler: requests posted to finishOrderHandler, over the orders
\* table or over a sqlmock result
SinkRequests ==
    {[order_id |-> o, status |-> st] : o \in {-1, 0, 1}, st \in {"", "finished"}}

MockResults ==
    {[execErr |-> TRUE, raErr |-> FALSE, rows |-> 0],
     [execErr |-> FALSE, raErr |-> TRUE, rows |-> 1]}
    \cup {[execErr |-> FALSE, raErr |-> FALSE, rows |-> n] : n \in 0..2}

InitSink ==
    /\ deployment = "http"
    /\ now = 1
    /\ faults = MaxFaults
    /\ orders = [o \in {1, 2} |-> [status |-> "pending"]]
    /\ outbox = <<>>
    /\ stream = <<>>
    /\ nextOrderId = 3
    /\ nextOutboxId = 1
    /\ req = [r \in Reqs |-> ReqIdle]
    /\ next = 1
    /\ nposts = 0
    /\ ndups = 0
    /\ hs \in [Handlers -> {[HandlerIdle EXCEPT !.pc = "inflight", !.sent = r, !.mock = m] :
                               r \in SinkRequests, m \in {NoMsg} \cup MockResults}]
    /\ started = {}
    /\ delivered = {}
    /\ krelay = KafkaIdle
    /\ boot = [s \in Services |-> "serving"]
    /\ callCount = 0
    /\ notif = NotifIdle
    /\ received = <<>>
    /\ polled = <<>>
    /\ environ = NoEnv
    /\ conf = [s \in Services |-> PortOf(s)]

NextSink ==
    \/ \E h \in Handlers : SinkRespond(h)
    \/ \E h \in Handlers : SqlmockRespond(h)

SpecSink == InitSink /\ [][NextSink]_vars

\* ----------------------------------------------------------------- claims

RowsOfAggregate(o) == {x \in DOMAIN outbox : outbox[x].aggregate_id = o}

\* C1: the committed database holds exactly one outbox row per committed order
\* row, with aggregate_id equal to the order's id, and neither an order row nor
\* an outbox row of a request that did not commit.
C1_Atomicity ==
    /\ \A o \in DOMAIN orders : Cardinality(RowsOfAggregate(o)) = 1
    /\ \A x \in DOMAIN outbox : outbox[x].aggregate_id \in DOMAIN orders
    /\ Cardinality(DOMAIN orders) = Cardinality({r \in Reqs : req[r].tx = "committed"})
    /\ \A r \in Reqs :
         IF req[r].tx = "committed"
         THEN /\ req[r].order.id \in DOMAIN orders
              /\ RowsOfAggregate(req[r].order.id) = {req[r].row.id}
         ELSE /\ req[r].order.id \notin DOMAIN orders
              /\ req[r].row # NoRec => req[r].row.id \notin DOMAIN outbox

\* one request committed, another failed after its orders insert
C1_Witness ==
    \E r1, r2 \in Reqs :
        /\ req[r1].tx = "committed"
        /\ req[r2].pc = "done" /\ req[r2].code = 500 /\ req[r2].order.id # 0

\* C2: no outbox row is 'published' without a preceding delivery call for it
\* that returned 2xx.
C2_PublishedOnlyAfterDelivery ==
    \A x \in DOMAIN outbox : outbox[x].status = "published" => x \in delivered

\* C3: when the delivery call fails (non-2xx status or transport error) the
\* handler issues no outbox update, answers 500 'webhook call failed' and is
\* ready for the next request; an update is only ever issued after a 2xx.
C3_FailedDeliveryNoUpdate ==
    [][\A h \in Handlers :
         /\ (hs[h].pc = "inflight" /\ hs'[h].pc # "inflight"
                 /\ hs'[h].code \notin 200..299)
              => /\ outbox' = outbox
                 /\ hs'[h].pc = "idle"
                 /\ hs'[h].resp = "500 webhook call failed"
         /\ (hs[h].pc = "delivered" /\ outbox' # outbox) => hs[h].code \in 200..299
         /\ hs'[h].pc = "delivered" => hs'[h].code \in 200..299]_vars

\* a handler answered 'webhook call failed' after a 4xx from the sink, and the
\* row is still pending
C3_Witness ==
    \E h \in Handlers :
        /\ hs[h].pc = "idle" /\ hs[h].resp = "500 webhook call failed"
        /\ hs[h].code = 404
        /\ outbox[RowOf(h)].status = "pending"
        /\ outbox[RowOf(h)].published_at = NullTime

\* handler h completes its mark-published update in this step
Marks(h) == hs[h].pc = "delivered" /\ hs'[h].pc = "idle" /\ hs'[h].resp = "200 processed"

\* C4: a mark-published update issued for a row that is already 'published'
\* affects zero rows and leaves the row as the first update set it.
C4_SecondMarkNoOp ==
    [][\A h \in Handlers :
         (Marks(h) /\ RowOf(h) \in DOMAIN outbox /\ outbox[RowOf(h)].status = "published")
            => /\ hs'[h].affected = 0
               /\ outbox'[RowOf(h)] = outbox[RowOf(h)]]_vars

\* C5: published_at is null from insertion until the first successful publish,
\* and once set it never changes.
C5_PublishedAtSetOnce ==
    [][/\ \A x \in DOMAIN outbox' \ DOMAIN outbox : outbox'[x].published_at = NullTime
       /\ \A x \in DOMAIN outbox :
            /\ outbox[x].published_at # NullTime
                 => outbox'[x].published_at = outbox[x].published_at
            /\ (outbox[x].published_at = NullTime /\ outbox'[x].published_at # NullTime)
                 => outbox'[x].status = "published"]_vars

\* C6: rows are inserted 'pending'; status only moves pending -> published or
\* pending -> failed, and a published or failed row keeps its status.
C6_StatusMonotonic ==
    [][/\ \A x \in DOMAIN outbox' \ DOMAIN outbox : outbox'[x].status = "pending"
       /\ \A x \in DOMAIN outbox :
            /\ x \in DOMAIN outbox'
            /\ outbox'[x].status # outbox[x].status
                 => /\ outbox[x].status = "pending"
                    /\ outbox'[x].status \in {"published", "failed"}]_vars

\* a published row was processed again (its update record) and is still published
C6_Witness ==
    \E h \in Handlers :
        /\ hs[h].pc = "idle" /\ hs[h].resp = "200 processed"
        /\ hs[h].rec.op = "u" /\ hs[h].rec.after.status = "published"
        /\ outbox[RowOf(h)].status = "published"

InFlight(h) == hs[h].pc \in {"inflight", "delivered"}

AggregateOf(h) == hs[h].rec.after.aggregate_id

\* C7: of two pending rows of one aggregate with created_at t1 < t2, the delivery
\* call for the t1 row is started before the delivery call for the t2 row.
C7_PerAggregateOrder ==
    \A x, y \in DOMAIN outbox :
        (/\ outbox[x].aggregate_id = outbox[y].aggregate_id
         /\ outbox[x].created_at < outbox[y].created_at
         /\ outbox[x].status = "pending" /\ outbox[y].status = "pending"
         /\ y \in started)
            => x \in started

\* C8: two records of the same aggregate are never in flight (between the start
\* of the delivery call and the end of the mark-published update) at the same time.
C8_OneInFlightPerAggregate ==
    \A h, g \in Handlers :
        (h # g /\ InFlight(h) /\ InFlight(g)) => AggregateOf(h) # AggregateOf(g)

\* C9: when two handler invocations process change records of the same pending
\* row at the same time, at most one of their mark-published updates reports a
\* row affected.
C9_ConcurrentMarkAtMostOnce ==
    \A h, g \in Handlers :
        (/\ h # g
         /\ hs[h].concur /\ hs[g].concur
         /\ hs[h].rec # NoRec /\ hs[g].rec # NoRec
         /\ RowOf(h) = RowOf(g)
         /\ hs[h].rec.after.status = "pending" /\ hs[g].rec.after.status = "pending"
         /\ hs[h].resp = "200 processed" /\ hs[g].resp = "200 processed")
            => hs[h].affected + hs[g].affected <= 1

\* C10: with transient failures only, every committed outbox row eventually
\* reaches status 'published'.
C10_EventuallyPublished ==
    \A x \in 1..MaxOrders :
        [](x \in DOMAIN outbox => <>(x \in DOMAIN outbox /\ outbox[x].status = "published"))

\* the process of the Kafka relay dies in this step
KafkaCrashes == krelay'.crashes = krelay.crashes + 1

\* C11: when the relay dies holding a change record whose mark-published update
\* has not run, the row is still 'pending' after the restart and the restarted
\* relay resumes at or before that record, so that it is processed again.
C11_CrashRedelivers ==
    [][(KafkaCrashes /\ krelay.pc = "sleep"
          /\ outbox[krelay.rec.after.id].status = "pending")
       => /\ outbox'[krelay.rec.after.id].status = "pending"
          /\ krelay'.off <= krelay.off - 1]_vars

\* the handler has answered without a delivery call or a change of the database
NoEffect(h) ==
    /\ hs'[h].pc = "idle"
    /\ hs'[h].sent = NoMsg
    /\ UNCHANGED <<dbVars, stream, started, delivered>>

IsSkippable(rec) ==
    /\ rec # BadBody
    /\ \/ rec.op \in {"d", "r"}
       \/ rec.after = NilAfter

\* C12: for every change record whose op is 'd' or 'r', or whose after image is
\* absent, the relay makes no delivery call and no outbox update, and answers
\* success with status 'skipped'.
C12_SkippedRecords ==
    [][\A h \in Handlers :
         (hs[h].pc = "idle" /\ hs'[h] # hs[h] /\ IsSkippable(hs'[h].got))
         => /\ NoEffect(h)
            /\ hs'[h].resp = "200 skipped"]_vars

C12_Witness ==
    \E h, g \in Handlers :
      /\ hs[h].got # NoRec /\ hs[h].got # BadBody /\ hs[h].got.op = "d"
      /\ hs[h].got.after # NilAfter /\ Decode([hs[h].got EXCEPT !.op = "c"]) = "ok"
      /\ hs[h].resp = "200 skipped"
      /\ hs[g].resp = "200 processed"
      /\ outbox[1].status = "pending"

\* the record fails one of the decoding stages: the body is not JSON, the after
\* image lacks or mistypes id, aggregate_id, payload or status, or the payload
\* string is not JSON
FailsDecoding(rec) ==
    \/ rec = BadBody
    \/ /\ rec.op \in {"c", "u"}
       /\ rec.after # NilAfter
       /\ \/ \E f \in RequiredFields : ShapeOf(rec.after)[f] # RowShape[f]
          \/ ~rec.after.payload.valid

Is400(resp) == SubSeq(resp, 1, 3) = "400"

\* C13: for every change record that fails decoding at any stage, the relay
\* makes no delivery call and no outbox update, and answers HTTP 400.
C13_DecodeFailures ==
    [][\A h \in Handlers :
         (hs[h].pc = "idle" /\ hs'[h] # hs[h] /\ FailsDecoding(hs'[h].got))
         => /\ NoEffect(h)
            /\ Is400(hs'[h].resp)]_vars

C13_Witness ==
    /\ \E h \in Handlers :
         /\ hs[h].got # NoRec /\ hs[h].got # BadBody /\ hs[h].got.op = "u"
         /\ hs[h].got.after # NilAfter
         /\ ShapeOf(hs[h].got.after).status = "absent"
         /\ hs[h].resp = "400 failed to extract outbox"
    /\ outbox[1].status = "pending" /\ 1 \notin started
    /\ outbox[2].status = "published"

\* C14: a record whose payload is valid JSON without a numeric id is handled as
\* a rejected record: the handler returns normally, without a runtime fault,
\* makes no delivery call and no outbox update.
C14_MissingIdRejected ==
    \A h \in Handlers : hs[h].resp # "panic"

Answered(h) ==
    /\ hs[h].got = stream[2]
    /\ hs[h].pc = "idle"
    /\ hs[h].resp \in {"200 processed", "500 webhook call failed", MarkErrorAnswer}

\* C15: after a record whose payload fails to decode was rejected, a following
\* valid record is still processed: its handler runs to an answer, and the answer
\* 'processed' means that the event was delivered and the row marked 'published',
\* while the row of the rejected record is untouched.
C15_RejectedDoesNotBlock ==
    /\ [](Decode(stream[1]) = "invalid payload json"
           => /\ outbox[1] = SeedRow(1, 1, 0)
              /\ 1 \notin started
              /\ \A h \in Handlers :
                   (Answered(h) /\ hs[h].resp = "200 processed")
                   => /\ outbox[2].status = "published"
                      /\ 2 \in delivered)
    /\ (Decode(stream[1]) = "invalid payload json"
          => <>(\E h \in Handlers : Answered(h)))

C15_Witness ==
    /\ Decode(stream[1]) = "invalid payload json"
    /\ \E h \in Handlers : Answered(h) /\ hs[h].resp = "200 processed"
    /\ outbox[2].status = "published"
    /\ outbox[1].status = "pending"

\* C16: in every reachable state a row is 'published' exactly when its
\* published_at is set; a handler whose delivery succeeded and whose update did
\* not fail leaves the row 'published' with published_at set and answers
\* 200 'processed'.
C16_PublishedHasTimestamp ==
    /\ [](\A x \in DOMAIN outbox :
            outbox[x].status = "published" <=> outbox[x].published_at # NullTime)
    /\ [][\A h \in Handlers :
            (hs[h].pc = "delivered" /\ hs'[h].pc = "idle" /\ faults' = faults)
            => /\ hs'[h].resp = "200 processed"
               /\ outbox'[RowOf(h)].status = "published"
               /\ outbox'[RowOf(h)].published_at # NullTime]_vars

C16_Witness ==
    \E h \in Handlers :
      /\ hs[h].resp = "200 processed"
      /\ hs[h].rec.after.status = "pending"
      /\ outbox[RowOf(h)].status = "published"
      /\ outbox[RowOf(h)].published_at # NullTime

\* C17: when the delivery succeeded and the mark-published update returns a
\* database error, the handler answers 500 'failed to mark published' and the
\* row keeps its state; a record that is processed again is delivered again,
\* whatever was delivered before.
C17_MarkFailureKeepsPending ==
    [][\A h \in Handlers :
         /\ (hs[h].pc = "delivered" /\ hs'[h].pc = "idle" /\ faults' < faults)
            => /\ hs'[h].resp = "500 failed to mark published"
               /\ outbox' = outbox
         /\ (hs[h].pc = "decoded" /\ hs'[h].pc # "decoded")
            => /\ hs'[h].pc = "inflight"
               /\ hs'[h].sent # NoMsg]_vars

\* the second delivery call of a row is in flight after the first was delivered
\* and its update failed
C17_Witness ==
    \E h \in Handlers :
      /\ hs[h].pc = "inflight"
      /\ ~hs[h].concur
      /\ \A g \in Handlers \ {h} : ~Busy(g)
      /\ RowOf(h) \in delivered
      /\ outbox[RowOf(h)].status = "pending"
      /\ faults < MaxFaults

\* C18: callWebhook returns success exactly when the sink answers 200..299; for
\* every other status code it returns an error naming that code, and for a
\* transport failure the error 'failed to call webhook'.
C18_CallWebhookResult ==
    \A h \in Handlers :
      hs[h].werr # NoMsg
      => /\ hs[h].werr.msg = "nil" <=> hs[h].code \in 200..299
         /\ hs[h].code = 0 => hs[h].werr.msg = "failed to call webhook"
         /\ (hs[h].code # 0 /\ hs[h].code \notin 200..299)
            => /\ hs[h].werr.msg = "webhook returned status"
               /\ hs[h].werr.status = hs[h].code

C18_Witness ==
    \E h, g \in Handlers :
      /\ hs[h].code = 299 /\ hs[h].pc = "delivered"
      /\ hs[g].code = 300 /\ hs[g].resp = "500 webhook call failed"

\* C19: a delivery call to a sink that never answers does not stay in flight:
\* it ends with the error 'failed to call webhook', the handler answers 500 and
\* does not mark the row.
C19_TimeoutEndsCall ==
    /\ \A h \in Handlers : (hs[h].pc = "inflight") ~> (hs[h].pc # "inflight")
    /\ [][\A h \in Handlers :
            (hs[h].pc = "inflight" /\ hs'[h].pc # "inflight" /\ hs'[h].code = 0)
            => /\ hs'[h].werr.msg = "failed to call webhook"
               /\ hs'[h].resp = "500 webhook call failed"
               /\ hs'[h].pc = "idle"
               /\ outbox' = outbox]_vars

C19_Witness ==
    \E h \in Handlers :
      /\ hs[h].code = 0
      /\ hs[h].werr # NoMsg
      /\ hs[h].werr.msg = "failed to call webhook"
      /\ hs[h].resp = "500 webhook call failed"
      /\ outbox[RowOf(h)].status = "pending"

\* C20: the order_id sent to the sink and echoed in the answer is the id inside
\* the row's payload, the outbox_id of the answer is the row's own id, and the
\* status sent is 'finished'.
C20_SentFields ==
    \A h \in Handlers :
      /\ hs[h].sent # NoMsg
         => /\ hs[h].sent.order_id = outbox[RowOf(h)].payload.id
            /\ hs[h].sent.status = "finished"
      /\ hs[h].body # NoMsg
         => /\ hs[h].body.order_id = outbox[RowOf(h)].payload.id
            /\ hs[h].body.outbox_id = outbox[RowOf(h)].id

C20_Witness ==
    \E h \in Handlers :
      /\ hs[h].body # NoMsg
      /\ hs[h].sent # NoMsg
      /\ outbox[RowOf(h)].id # outbox[RowOf(h)].payload.id

\* the sink answers handler h's request in this step
SinkAnswers(h) ==
    /\ hs[h].pc = "inflight"
    /\ hs'[h].pc # "inflight"
    /\ hs'[h].code # 0

\* C21: a finish request applied to an order that already has the requested
\* status leaves the orders table as it is: applying the request two or more
\* times gives the status that applying it once gives.
C21_FinishIdempotent ==
    [][\A h \in Handlers :
         (SinkAnswers(h) /\ hs[h].mock = NoMsg /\ hs'[h].code = 200)
         => /\ orders'[hs[h].sent.order_id].status = hs[h].sent.status
            /\ orders[hs[h].sent.order_id].status = hs[h].sent.status
               => orders' = orders]_vars

C21_Witness ==
    \E h, g \in Handlers :
      /\ h # g
      /\ hs[h].sent = hs[g].sent
      /\ hs[h].mock = NoMsg /\ hs[g].mock = NoMsg
      /\ hs[h].code = 200 /\ hs[g].code = 200
      /\ orders[hs[h].sent.order_id].status = "finished"

\* C22: finishOrderHandler answers 400 without touching the database when the
\* body fails validation, 500 when the update or the rows-affected check returns
\* an error, 404 when no row is affected and 200 when one or more are; the
\* order's status changes only with the answer 200.
C22_FinishAnswers ==
    [][\A h \in Handlers :
         SinkAnswers(h)
         => LET r == hs[h].sent
                m == hs[h].mock
                c == hs'[h].code
            IN  /\ orders' # orders => c = 200
                /\ (r.order_id = 0 \/ r.status = "") => c = 400
                /\ (r.order_id # 0 /\ r.status # "")
                   => IF m = NoMsg
                      THEN /\ c \in {200, 404, 500}
                           /\ c = 404 => r.order_id \notin DOMAIN orders
                           /\ c = 200 => r.order_id \in DOMAIN orders
                      ELSE /\ (m.execErr \/ m.raErr) => c = 500
                           /\ (~m.execErr /\ ~m.raErr /\ m.rows = 0) => c = 404
                           /\ (~m.execErr /\ ~m.raErr /\ m.rows >= 1) => c = 200]_vars

C22_Witness ==
    \E h, g \in Handlers :
      /\ hs[h].mock # NoMsg /\ hs[h].mock.rows = 2 /\ hs[h].code = 200
      /\ hs[g].mock # NoMsg /\ hs[g].mock.raErr /\ hs[g].code = 500
      /\ hs[g].sent.status # "" /\ hs[g].sent.order_id # 0

\* C23: a finish request with order_id 0 or a negative order_id passes the
\* validation and is answered 404 when no order matches, and a request with an
\* empty status is answered 400.
C23_ZeroOrderIdPasses ==
    \A h \in Handlers :
      (hs[h].sent # NoMsg /\ hs[h].mock = NoMsg /\ hs[h].code # 0 /\ hs[h].werr # NoMsg)
      => /\ hs[h].sent.status = "" => hs[h].code = 400
         /\ (hs[h].sent.status # "" /\ hs[h].sent.order_id <= 0
               /\ hs[h].sent.order_id \notin DOMAIN orders)
            => hs[h].code \in {404, 500}

C24_WitnessZeroTime ==
    \E h \in Handlers :
      /\ hs[h].ob # NoMsg /\ hs[h].ob.err = ""
      /\ hs[h].ob.Status = "" /\ hs[h].ob.CreatedAt = ZeroTime

\* C25: getEnv returns the variable's value whenever the variable is set, the
\* empty string included, and the fallback only when the variable is not set.
C25_GetEnvSetWins ==
    \A s \in Services :
      conf[s] # "unread"
      => conf[s] = IF "PORT" \in DOMAIN environ THEN environ["PORT"] ELSE DefaultPort(s)

\* C27: a service whose database cannot be opened or pinged at start-up ends its
\* process: it handles no request and no change record with that handle.
C27_StartupFailureExits ==
    /\ boot["order-service"] = "degraded" => \A r \in Reqs : req[r].pc = "idle"
    /\ boot["relay"] = "degraded" => krelay = KafkaIdle
    /\ boot["webhook-consumer"] # "degraded"

\* C29: when the relay's process ends on a shutdown request, no delivery call
\* is in flight and no record is between its delivery call and its update.
C29_ShutdownDrains ==
    [][(boot["relay"] \in {"serving", "degraded"} /\ boot'["relay"] = "exited")
       => /\ \A h \in Handlers : hs[h].pc \notin {"inflight", "delivered"}
          /\ krelay.pc # "sleep"]_vars

\* C30: each of N concurrent callWebhook invocations on one RelayServer sends
\* exactly one request and returns nil when the sink answers 2xx; the sink
\* receives exactly N requests, none lost and none duplicated.
C30_ConcurrentCalls ==
    /\ \A g \in Callers :
         LET mine == {i \in DOMAIN received : received[i].conn = g}
         IN  /\ Cardinality(mine) = IF hs[g].pc \in {"counting", "returned"} THEN 1 ELSE 0
             /\ \A i \in mine : received[i].body = WebhookRequest(g - 1, "finished")
             /\ hs[g].pc = "returned" => hs[g].werr.msg = "nil"
    /\ (\A g \in Callers : hs[g].pc = "returned") => Len(received) = NumCalls

C30_Witness ==
    /\ \A g \in Callers : hs[g].pc = "returned" /\ hs[g].werr.msg = "nil"
    /\ Len(received) = NumCalls

\* C28: no database transaction of the relay spans a delivery call: the row a
\* delivery call is made for was committed by the order service before its change
\* record was read, and the row is changed only by the mark-published statement
\* of a handler whose delivery call has returned (in the Kafka deployment, by the
\* loop's update).
C28_NoTxAcrossDelivery ==
    /\ [](\A h \in Handlers :
            InFlight(h)
            => /\ RowOf(h) \in DOMAIN outbox
               /\ \E r \in Reqs : req[r].tx = "committed" /\ req[r].row.id = RowOf(h))
    /\ [][\A id \in DOMAIN outbox :
            outbox'[id] # outbox[id]
            => \/ \E h \in Handlers : Marks(h) /\ RowOf(h) = id
               \/ krelay.pc = "sleep" /\ krelay'.pc = "poll"]_vars

C28_Witness ==
    \E g \in Handlers :
      /\ hs[g].resp = "200 processed"
      /\ RowOf(g) \in delivered
      /\ outbox[RowOf(g)].status = "published"
      /\ \E r \in Reqs : req[r].tx = "committed" /\ req[r].row.id = RowOf(g)

C31_OwnUpdateIgnored ==
    [][\A h \in Handlers :
         (/\ hs[h].rec # NoRec
          /\ hs[h].rec.op = "u"
          /\ hs[h].rec.after.status = "published")
         => /\ ~(hs[h].pc = "decoded" /\ hs'[h].pc = "inflight")
            /\ ~Marks(h)]_vars

\* C32: when createOrderHandler has returned, the transaction it began is
\* committed or rolled back: no request leaves a transaction open.
C32_NoOpenTransaction ==
    \A r \in Reqs : req[r].pc = "done" => req[r].tx # "open"

\* C33: createOrderHandler answers 201 exactly when its transaction committed,
\* and then the order row and the outbox row are in the database; on a failure
\* at any step it answers 500 and neither row of the request is visible.
C33_CreatedIffCommitted ==
    \A r \in Reqs :
      req[r].pc = "done"
      => /\ req[r].code \in {201, 500}
         /\ req[r].code = 201 <=> req[r].tx = "committed"
         /\ req[r].code = 201
            => /\ req[r].order.id \in DOMAIN orders
               /\ req[r].row.id \in DOMAIN outbox
               /\ outbox[req[r].row.id].aggregate_id = req[r].order.id
               /\ outbox[req[r].row.id].payload = req[r].row.payload
         /\ req[r].code = 500
            => /\ req[r].order.id \notin DOMAIN orders
               /\ \A x \in DOMAIN outbox :
                    /\ outbox[x].aggregate_id # req[r].order.id \/ req[r].order.id = 0
                    /\ req[r].row # NoRec => x # req[r].row.id

C33_Witness ==
    \E r1, r2 \in Reqs :
      /\ req[r1].pc = "done" /\ req[r1].code = 201
      /\ req[r2].pc = "done" /\ req[r2].code = 500 /\ req[r2].tx = "failed"
      /\ req[r2].row # NoRec

\* C34: the outbox row of every created order carries a payload whose id is the
\* new order's id and whose status is 'pending', and the finish request sent for
\* that row sets the status of that order and of no other order.
C34_PayloadNamesItsOrder ==
    /\ [](\A r \in Reqs :
            req[r].tx = "committed"
            => /\ outbox[req[r].row.id].payload.id = req[r].order.id
               /\ outbox[req[r].row.id].payload.status = "pending"
               /\ outbox[req[r].row.id].aggregate_id = req[r].order.id)
    /\ [][\A h \in Handlers :
            (SinkAnswers(h) /\ orders' # orders)
            => \E r \in Reqs :
                 /\ req[r].tx = "committed"
                 /\ req[r].row.id = RowOf(h)
                 /\ hs[h].sent.order_id = req[r].order.id
                 /\ orders' = [orders EXCEPT ![req[r].order.id].status = "finished"]]_vars

C34_Witness ==
    \E h \in Handlers :
      /\ hs[h].code = 200
      /\ hs[h].sent # NoMsg
      /\ \E o \in DOMAIN orders :
           /\ o # hs[h].sent.order_id
           /\ orders[o].status = "pending"
           /\ orders[hs[h].sent.order_id].status = "finished"

\* C35: for every operation tag and for an after image present or absent, the
\* HTTP relay and the Kafka relay make the same decision: a record one of them
\* processes the other processes, and a record one of them skips the other skips.
C35_SameDecision ==
    /\ \A h \in Handlers :
         hs[h].got # NoRec
         => (hs[h].resp = DecodeAnswer("skipped") <=> KafkaSelect(hs[h].got) = NoRec)
    /\ krelay.off > 1
       => (krelay.rec = NoRec <=> Decode(stream[krelay.off - 1]) = "skipped")

\* C36: the notification consumer commits offset N+1 for the message at offset N
\* only after it has processed that message; when processing or the commit
\* fails nothing is committed for that message and the handler returns
\* normally; the failed message is delivered again later, so the group's
\* committed offset does not pass a message whose last handling failed.
C36_CommitAfterProcessing ==
    /\ [][notif'.committed # notif.committed
           => /\ notif.pc = "committing"
              /\ notif'.committed = notif.off + 1
              /\ \E i \in DOMAIN notif.done : notif.done[i] = notif.off]_vars
    /\ [][\A n \in notif'.failed \ notif.failed :
             /\ notif'.committed = notif.committed
             /\ notif'.pc = "idle"]_vars
    /\ [](\A n \in notif.failed : notif.committed <= n)

====
